---- MODULE Spec2Model ----
(***************************************************************************)
(* A model of the runtypes-to-zod rewrite engine, the second `transformer` *)
(* of src/src/transform.ts (lines 469-1553).                               *)
(*                                                                         *)
(* A source unit is modelled by its syntax tree as the "tsx" parser of     *)
(* jscodeshift (a Babel parser) yields it: a sequence of statements, each  *)
(* a record with a "type" field holding the node type.  Source text is     *)
(* represented by the tree the parser yields for it; toSource computes     *)
(* the tree of the printed text of a (possibly rewritten) tree.            *)
(*                                                                         *)
(* jscodeshift semantics the stage operators follow:                       *)
(*  - root.find(T) collects every path of type T in pre-order before       *)
(*    .filter and .forEach run, so a filter sees the tree as it was when   *)
(*    the stage started and nodes created by the stage are not visited;    *)
(*  - path.replace(n) writes n into the container (node field or array)    *)
(*    the path was collected from.  When an ancestor was replaced by a     *)
(*    node built around a NEW array (arguments.map(...), [object,...args]) *)
(*    the old container is no longer part of the tree and the write is     *)
(*    lost, while assignments to fields of the old child node object       *)
(*    (path.node.callee = ...) stay visible, the object being shared.      *)
(*    Each rewriting stage is therefore a pair of recursive operators:     *)
(*    <stage>T(n), the node found in n's slot when that slot is still part *)
(*    of the tree, and <stage>K(n), the old node object n after the stage. *)
(***************************************************************************)
EXTENDS Integers, Sequences, FiniteSets, TLC

\* ------------------------------------------------------------------ bounds
MaxArgs == 2
MaxPasses == 2

\* -------------------------------------------------------------- AST nodes
None == [type |-> "None"]

\* jsBuiltin is the __jsBuiltin mark; loc is the source position the parser
\* records on a node (here: on identifiers), empty on a node the transform built
Id(n) == [type |-> "Identifier", name |-> n, jsBuiltin |-> FALSE, loc |-> <<>>]
Call(c, a) == [type |-> "CallExpression", callee |-> c, arguments |-> a]
Member(o, p) == [type |-> "MemberExpression", object |-> o, property |-> p]
Obj(ps) == [type |-> "ObjectExpression", properties |-> ps]
\* the Babel parser yields ObjectProperty nodes; j.property(...) builds Property nodes
ObjProp(k, v) == [type |-> "ObjectProperty", key |-> k, value |-> v]
BuiltProp(k, v) == [type |-> "Property", key |-> k, value |-> v]
Arr(es) == [type |-> "ArrayExpression", elements |-> es]
Arrow(ps, b) == [type |-> "ArrowFunctionExpression", params |-> ps, body |-> b]
Logical(op, l, r) == [type |-> "LogicalExpression", operator |-> op, left |-> l, right |-> r]
StrLit(v) == [type |-> "StringLiteral", value |-> v]
NumLit(v) == [type |-> "NumericLiteral", value |-> v]
BoolLit(v) == [type |-> "BooleanLiteral", value |-> v]
\* j.literal(v) builds a Literal node
BuiltLit(v) == [type |-> "Literal", value |-> v]

\* statements
ImportSpecifier(imported, local) ==
    [type |-> "ImportSpecifier", imported |-> imported, local |-> local]
ImportNamespaceSpecifier(local) ==
    [type |-> "ImportNamespaceSpecifier", imported |-> "*", local |-> local]
ImportDecl(src, specs) ==
    [type |-> "ImportDeclaration", source |-> src, specifiers |-> specs]
Const(name, init) == [type |-> "VariableDeclaration", id |-> name, expr |-> init]
IfStmt(test) == [type |-> "IfStatement", expr |-> test]
ExprStmt(e) == [type |-> "ExpressionStatement", expr |-> e]
\* type <name> = <typeName><typeof <operand>>; typeName is an Identifier or a
\* TSQualifiedName
QName(l, r) == [type |-> "TSQualifiedName", left |-> l, right |-> r]
TypeAlias(name, typeName, operand) ==
    [type |-> "TSTypeAliasDeclaration", id |-> name, typeName |-> typeName,
     operand |-> operand]

IsId(n) == n.type = "Identifier"
IsIdNamed(n, s) == n.type = "Identifier" /\ n.name = s
IsCall(n) == n.type = "CallExpression"
IsMember(n) == n.type = "MemberExpression"
\* j.Literal.check: StringLiteral, NumericLiteral, BooleanLiteral derive from Literal
IsLiteral(n) == n.type \in {"Literal", "StringLiteral", "NumericLiteral", "BooleanLiteral"}
\* j.Property.check: ObjectProperty does not derive from Property
IsProperty(n) == n.type = "Property"
HasExpr(s) == s.type \in {"VariableDeclaration", "IfStatement", "ExpressionStatement"}

SeqMap(Op(_), s) == [i \in 1..Len(s) |-> Op(s[i])]

\* ------------------------------------------------------------ the tables
\* A mapped zod expression "z.<name>" or "z.<name>()" is the record
\* [name, paren]; the empty string of the table is Unmapped (falsy).
Z(name, paren) == [name |-> name, paren |-> paren]
Unmapped == [name |-> "", paren |-> FALSE]

typeMapping ==
    [String |-> Z("string", TRUE), Number |-> Z("number", TRUE),
     Boolean |-> Z("boolean", TRUE), BigInt |-> Z("bigint", TRUE),
     Array |-> Z("array", FALSE), Tuple |-> Z("tuple", FALSE),
     Record |-> Z("object", FALSE), Object |-> Z("object", FALSE),
     Union |-> Z("union", FALSE), Intersect |-> Z("intersection", FALSE),
     Optional |-> Z("optional", FALSE), Literal |-> Z("literal", FALSE),
     Null |-> Z("null", TRUE), Undefined |-> Z("undefined", TRUE),
     Unknown |-> Z("unknown", TRUE), Void |-> Z("void", TRUE),
     Never |-> Z("never", TRUE), Lazy |-> Z("lazy", FALSE),
     InstanceOf |-> Z("instanceof", FALSE), Nullish |-> Z("nullish", FALSE),
     Template |-> Z("string", FALSE), Symbol |-> Z("symbol", FALSE),
     Constraint |-> Unmapped, Brand |-> Unmapped]

methodMapping ==
    [check |-> "parse", guard |-> "safeParse", parse |-> "parse",
     withConstraint |-> "refine", withBrand |-> "brand", asReadonly |-> "readonly",
     optional |-> "optional", nullable |-> "nullable", pick |-> "pick",
     omit |-> "omit", extend |-> "extend", exact |-> "strict",
     strict |-> "", passthrough |-> "", or |-> ""]

\* Object.keys(typeMapping).includes(n)
InTypeMapping(n) == n \in DOMAIN typeMapping
\* typeMapping[n], undefined (falsy) for a name that is no key
MappedType(n) == IF n \in DOMAIN typeMapping THEN typeMapping[n] ELSE Unmapped
Truthy(m) == m.name /= ""

JsBuiltinNames == {"Boolean", "String", "Number", "Symbol"}

toLowerCase ==
    [String |-> "string", Number |-> "number", Boolean |-> "boolean",
     BigInt |-> "bigint", Array |-> "array", Tuple |-> "tuple", Record |-> "record",
     Object |-> "object", Union |-> "union", Intersect |-> "intersect",
     Optional |-> "optional", Literal |-> "literal", Null |-> "null",
     Undefined |-> "undefined", Unknown |-> "unknown", Void |-> "void",
     Never |-> "never", Lazy |-> "lazy", InstanceOf |-> "instanceof",
     Nullish |-> "nullish", Template |-> "template", Symbol |-> "symbol",
     Constraint |-> "constraint", Brand |-> "brand"]

ZMember(name) == Member(Id("z"), Id(name))
ZCall(name) == Call(ZMember(name), <<>>)

parseZodExpression(expr) ==
    IF expr.paren
    THEN IF expr.name \in {"array", "lazy", "instanceof"}
         THEN ZMember(expr.name)
         ELSE ZCall(expr.name)
    ELSE ZMember(expr.name)

\* ------------------------------------------------------- tree traversal
\* The node n with each child c, held in field role, replaced by F(c, n, role).
MapChildren(n, F(_, _, _)) ==
    CASE n.type = "CallExpression" ->
           Call(F(n.callee, n, "callee"),
                [i \in 1..Len(n.arguments) |-> F(n.arguments[i], n, "arguments")])
      [] n.type = "MemberExpression" ->
           Member(F(n.object, n, "object"), F(n.property, n, "property"))
      [] n.type = "ObjectExpression" ->
           Obj([i \in 1..Len(n.properties) |->
                  [n.properties[i] EXCEPT !.value = F(@, n.properties[i], "value")]])
      [] n.type = "ArrayExpression" ->
           Arr([i \in 1..Len(n.elements) |-> F(n.elements[i], n, "elements")])
      [] n.type = "ArrowFunctionExpression" ->
           Arrow([i \in 1..Len(n.params) |-> F(n.params[i], n, "params")],
                 F(n.body, n, "body"))
      [] n.type = "LogicalExpression" ->
           Logical(n.operator, F(n.left, n, "left"), F(n.right, n, "right"))
      [] OTHER -> n

\* The child expressions of n.
Children(n) ==
    CASE n.type = "CallExpression" ->
           {n.callee} \cup {n.arguments[i] : i \in 1..Len(n.arguments)}
      [] n.type = "MemberExpression" -> {n.object, n.property}
      [] n.type = "ObjectExpression" ->
           {n.properties[i].value : i \in 1..Len(n.properties)}
      [] n.type = "ArrayExpression" -> {n.elements[i] : i \in 1..Len(n.elements)}
      [] n.type = "ArrowFunctionExpression" ->
           {n.body} \cup {n.params[i] : i \in 1..Len(n.params)}
      [] n.type = "LogicalExpression" -> {n.left, n.right}
      [] OTHER -> {}

\* root.find(...): every expression node of the subtree n, n included.
RECURSIVE Nodes(_)
Nodes(n) == {n} \cup UNION {Nodes(c) : c \in Children(n)}

\* every expression node of a program body
BodyNodes(body) ==
    UNION {Nodes(body[i].expr) : i \in {k \in 1..Len(body) : HasExpr(body[k])}}

\* a stage operator F applied to the expression of every statement of the body
MapBody(body, F(_, _, _)) ==
    [i \in 1..Len(body) |->
        IF HasExpr(body[i]) THEN [body[i] EXCEPT !.expr = F(@, body[i], "expr")]
        ELSE body[i]]

\* ------------------------------------------------------- markJsBuiltins
RECURSIVE MarkNode(_, _, _)
MarkNode(n, p, role) ==
    IF IsId(n)
    THEN IF /\ n.name \in JsBuiltinNames
            /\ \/ IsCall(p) /\ role \in {"callee", "arguments"}
               \/ IsMember(p) /\ role = "property"
         THEN [n EXCEPT !.jsBuiltin = TRUE]
         ELSE n
    ELSE MapChildren(n, MarkNode)

markJsBuiltins(body) == MapBody(body, MarkNode)

\* ------------------------------------ transformStandaloneTypeIdentifiers
\* ss is the rewrite-session state: [imported, ns, symbolAlias]; ns and
\* symbolAlias are "" for null.
shouldSkipIdentifier(n, p, role, ss) ==
    \/ IsMember(p) /\ role = "object"
    \/ n.jsBuiltin
    \/ IsCall(p) /\ role = "callee" /\ n.name \in JsBuiltinNames
    \/ /\ ss.ns /= ""
       /\ n.name \in JsBuiltinNames
       /\ ~(IsMember(p) /\ role = "property" /\ IsIdNamed(p.object, ss.ns))
    \/ ss.ns = "" /\ n.name \in JsBuiltinNames /\ n.name \notin ss.imported
    \/ /\ IsCall(p) /\ role = "arguments"
       /\ IsMember(p.callee) /\ IsIdNamed(p.callee.property, "filter")
       /\ n.name \in JsBuiltinNames

replaceWithZodType(n, p, role, ss) ==
    IF IsCall(p) /\ role = "callee" THEN n
    ELSE IF n.name = "String" THEN ZCall("string")
    ELSE IF n.name = "Number" THEN ZCall("number")
    ELSE IF n.name = "Boolean" THEN ZCall("boolean")
    ELSE IF ss.symbolAlias /= "" /\ n.name = ss.symbolAlias THEN ZCall("symbol")
    ELSE n

RECURSIVE StandaloneNode(_, _, _, _)
StandaloneNode(n, p, role, ss) ==
    IF IsId(n)
    THEN IF /\ InTypeMapping(n.name) \/ (ss.symbolAlias /= "" /\ n.name = ss.symbolAlias)
            /\ ~shouldSkipIdentifier(n, p, role, ss)
         THEN replaceWithZodType(n, p, role, ss)
         ELSE n
    ELSE MapChildren(n, LAMBDA c, q, r : StandaloneNode(c, q, r, ss))

transformStandaloneTypeIdentifiers(body, ss) ==
    MapBody(body, LAMBDA c, q, r : StandaloneNode(c, q, r, ss))

\* ------------------------------------------ transformTypeCallExpressions
\* the .filter of transformTypeCallExpressions
TypeCallMatch(n, ss) ==
    /\ IsCall(n)
    /\ IsId(n.callee)
    /\ ~(/\ n.callee.name \in JsBuiltinNames
         /\ \/ n.callee.jsBuiltin
            \/ n.callee.name \notin ss.imported
            \/ Len(n.arguments) > 0)
    /\ InTypeMapping(n.callee.name)

\* an argument that is an Identifier with a truthy typeMapping entry
IsMappedId(a) == IsId(a) /\ Truthy(MappedType(a.name))

\* the property loop of transformObjectCall on the object literal o: the value
\* it assigns to property i, or the value left in place (rewritten by Rest)
ObjectCallProperties(o, Rest(_, _, _)) ==
    Obj([i \in 1..Len(o.properties) |->
           LET prop == o.properties[i] IN
           IF IsProperty(prop) /\ IsMappedId(prop.value)
           THEN [prop EXCEPT !.value = parseZodExpression(MappedType(prop.value.name))]
           ELSE [prop EXCEPT !.value = Rest(@, prop, "value")]])

\* every argument of a Union call is a call of the bare identifier Literal
AllLiterals(args) ==
    \A i \in 1..Len(args) : IsCall(args[i]) /\ IsIdNamed(args[i].callee, "Literal")

\* (arg as CallExpression).arguments[0], undefined for a call without arguments
FirstArgument(c) == IF Len(c.arguments) > 0 THEN c.arguments[1] ELSE None

RECURSIVE TypeCallT(_, _, _, _)
RECURSIVE TypeCallK(_, _, _, _)

transformObjectCall(n, ss) ==
    Call(parseZodExpression(typeMapping["Object"]),
         [i \in 1..Len(n.arguments) |->
            IF i = 1 /\ n.arguments[1].type = "ObjectExpression"
            THEN ObjectCallProperties(n.arguments[1],
                                      LAMBDA c, q, r : TypeCallT(c, q, r, ss))
            ELSE TypeCallT(n.arguments[i], n, "arguments", ss)])

transformArrayCall(n, ss) ==
    IF "Array" \notin ss.imported
    THEN MapChildren(n, LAMBDA c, q, r : TypeCallT(c, q, r, ss))
    ELSE Call(parseZodExpression(typeMapping["Array"]),
              [i \in 1..Len(n.arguments) |->
                 IF i = 1 /\ IsMappedId(n.arguments[1])
                 THEN parseZodExpression(MappedType(n.arguments[1].name))
                 ELSE TypeCallT(n.arguments[i], n, "arguments", ss)])

\* the node transformOptionalCall replaces the call with (when it does)
OptionalReplaces(n) == Len(n.arguments) > 0 /\ IsMappedId(n.arguments[1])
transformOptionalCall(n) ==
    Call(Member(parseZodExpression(MappedType(n.arguments[1].name)), Id("optional")),
         <<>>)

\* arguments.map(...) of transformUnionCall / TupleCall / IntersectCall: a
\* new array holding the old argument nodes, mapped identifiers replaced
MappedArguments(n, ss) ==
    [i \in 1..Len(n.arguments) |->
       IF IsMappedId(n.arguments[i])
       THEN parseZodExpression(MappedType(n.arguments[i].name))
       ELSE TypeCallK(n.arguments[i], n, "arguments", ss)]

transformUnionCall(n, ss) ==
    IF AllLiterals(n.arguments)
    THEN Call(ZMember("enum"),
              <<Arr([i \in 1..Len(n.arguments) |->
                       LET v == FirstArgument(n.arguments[i]) IN
                       TypeCallK(v, n.arguments[i], "arguments", ss)])>>)
    ELSE Call(parseZodExpression(Z("union", FALSE)), <<Arr(MappedArguments(n, ss))>>)

transformTupleCall(n, ss) ==
    Call(parseZodExpression(Z("tuple", FALSE)), <<Arr(MappedArguments(n, ss))>>)

transformIntersectCall(n, ss) ==
    Call(parseZodExpression(Z("intersection", FALSE)), <<Arr(MappedArguments(n, ss))>>)

\* the old node object n after the stage
TypeCallK(n, p, role, ss) ==
    IF TypeCallMatch(n, ss) /\ Truthy(MappedType(n.callee.name))
    THEN CASE n.callee.name = "Object" -> transformObjectCall(n, ss)
           [] n.callee.name = "Array" -> transformArrayCall(n, ss)
           [] n.callee.name \in {"Optional", "Union", "Tuple", "Intersect"} ->
                MapChildren(n, LAMBDA c, q, r : TypeCallT(c, q, r, ss))
           [] OTHER ->
                Call(parseZodExpression(MappedType(n.callee.name)),
                     [i \in 1..Len(n.arguments) |->
                        TypeCallT(n.arguments[i], n, "arguments", ss)])
    ELSE MapChildren(n, LAMBDA c, q, r : TypeCallT(c, q, r, ss))

\* the node in n's slot after the stage
TypeCallT(n, p, role, ss) ==
    IF TypeCallMatch(n, ss) /\ Truthy(MappedType(n.callee.name))
    THEN CASE n.callee.name = "Optional" /\ OptionalReplaces(n) ->
                transformOptionalCall(n)
           [] n.callee.name = "Union" -> transformUnionCall(n, ss)
           [] n.callee.name = "Tuple" -> transformTupleCall(n, ss)
           [] n.callee.name = "Intersect" -> transformIntersectCall(n, ss)
           [] OTHER -> TypeCallK(n, p, role, ss)
    ELSE TypeCallK(n, p, role, ss)

transformTypeCallExpressions(body, ss) ==
    MapBody(body, LAMBDA c, q, r : TypeCallT(c, q, r, ss))

\* hasModifications = true runs first in the forEach, for every path the filter kept
TypeCallModifies(body, ss) == \E n \in BodyNodes(body) : TypeCallMatch(n, ss)

\* --------------------------------------------------- transformMethodCalls
\* the .filter of transformMethodCalls
MethodMatch(n) ==
    /\ IsCall(n)
    /\ IsMember(n.callee)
    /\ IsId(n.callee.property)
    /\ n.callee.property.name \in DOMAIN methodMapping

MethodName(n) == n.callee.property.name

\* the argument shape transformWithConstraintMethod destructures
ConstraintShape(n) ==
    /\ Len(n.arguments) > 0
    /\ n.arguments[1].type = "ArrowFunctionExpression"
    /\ n.arguments[1].body.type = "LogicalExpression"
    /\ n.arguments[1].body.operator = "||"
    /\ IsLiteral(n.arguments[1].body.right)

\* the argument shape transformPickOmitMethod collapses
PickOmitShape(n) ==
    /\ Len(n.arguments) > 0
    /\ \A i \in 1..Len(n.arguments) : IsLiteral(n.arguments[i])

RECURSIVE MethodT(_, _, _)
RECURSIVE MethodK(_, _, _)

\* a withConstraint rewrite that never destructures its argument
KeepConstraintArguments(n) ==
    [i \in 1..Len(n.arguments) |-> MethodT(n.arguments[i], n, "arguments")]

\* path.node.arguments = [newArrow, message]; the test node keeps the state
\* of the old node object, its old slot (body.left) being dropped
transformWithConstraintMethod(n) ==
    IF ConstraintShape(n)
    THEN LET arg == n.arguments[1] IN
         <<Arrow([i \in 1..Len(arg.params) |-> MethodT(arg.params[i], arg, "params")],
                 MethodK(arg.body.left, arg.body, "left")),
           arg.body.right>>
    ELSE [i \in 1..Len(n.arguments) |-> MethodT(n.arguments[i], n, "arguments")]

transformPickOmitMethod(n) ==
    IF PickOmitShape(n)
    THEN <<Obj([i \in 1..Len(n.arguments) |->
                  BuiltProp(n.arguments[i].value, BuiltLit(TRUE))])>>
    ELSE [i \in 1..Len(n.arguments) |-> MethodT(n.arguments[i], n, "arguments")]

\* z.union([object, ...args]): a new array around the old receiver and arguments
transformOrMethod(n) ==
    Call(parseZodExpression(Z("union", FALSE)),
         <<Arr(<<MethodK(n.callee.object, n.callee, "object")>>
               \o [i \in 1..Len(n.arguments) |->
                     MethodK(n.arguments[i], n, "arguments")])>>)

\* transformStrictMethod and transformPassthroughMethod are called only from
\* the branch behind `if (!mappedMethod) { ...; return; }`, which the empty
\* mappings of strict and passthrough never pass
MethodK(n, p, role) ==
    IF MethodMatch(n) /\ methodMapping[MethodName(n)] /= ""
    THEN LET callee == Member(MethodT(n.callee.object, n.callee, "object"),
                              [n.callee.property EXCEPT
                                 !.name = methodMapping[MethodName(n)]])
         IN CASE MethodName(n) = "withConstraint" ->
                   Call(callee, transformWithConstraintMethod(n))
              [] MethodName(n) \in {"pick", "omit"} ->
                   Call(callee, transformPickOmitMethod(n))
              [] OTHER ->
                   Call(callee, [i \in 1..Len(n.arguments) |->
                                   MethodT(n.arguments[i], n, "arguments")])
    ELSE MapChildren(n, MethodT)

MethodT(n, p, role) ==
    IF MethodMatch(n) /\ MethodName(n) = "or" /\ Len(n.arguments) > 0
    THEN transformOrMethod(n)
    ELSE MethodK(n, p, role)

transformMethodCalls(body) == MapBody(body, MethodT)

MethodModifies(body) ==
    \E n \in BodyNodes(body) :
       /\ MethodMatch(n)
       /\ \/ methodMapping[MethodName(n)] /= ""
          \/ MethodName(n) = "or" /\ Len(n.arguments) > 0

\* ------------------------------------------------- transformStaticToInfer
StaticMatch(s) ==
    s.type = "TSTypeAliasDeclaration" /\ IsIdNamed(s.typeName, "Static")

transformStaticToInfer(body) ==
    [i \in 1..Len(body) |->
       IF StaticMatch(body[i])
       THEN [body[i] EXCEPT !.typeName = [@ EXCEPT !.name = "z.infer"]]
       ELSE body[i]]

StaticModifies(body) == \E i \in 1..Len(body) : StaticMatch(body[i])

\* ---------------------------------------------- transformNamespaceImports
PrimitiveNames ==
    {"String", "Number", "Boolean", "Null", "Undefined", "Unknown", "Void", "Never"}
CompositeNames ==
    {"Array", "Tuple", "Record", "Object", "Union", "Intersect", "Optional", "Literal"}

\* the member expression <alias>.<name>
NsRef(a, ss) == IsMember(a) /\ IsIdNamed(a.object, ss.ns) /\ IsId(a.property)

\* the .filter of transformNamespaceCallExpressions
NsCallMatch(n, ss) ==
    /\ IsCall(n)
    /\ NsRef(n.callee, ss)
    /\ InTypeMapping(n.callee.property.name)

NsCallName(n) == n.callee.property.name

IsMappedNsRef(a, ss) == NsRef(a, ss) /\ Truthy(MappedType(a.property.name))

NsAllLiterals(args, ss) ==
    \A i \in 1..Len(args) :
       /\ IsCall(args[i])
       /\ NsRef(args[i].callee, ss)
       /\ args[i].callee.property.name = "Literal"

RECURSIVE NsCallT(_, _, _, _)
RECURSIVE NsCallK(_, _, _, _)

\* z.array(argNode ? [argNode] : [arg]): a new array around the first argument
transformNamespaceArrayCall(n, ss) ==
    LET arg == n.arguments[1] IN
    Call(ZMember("array"),
         <<IF IsMappedNsRef(arg, ss)
           THEN parseZodExpression(MappedType(arg.property.name))
           ELSE NsCallK(arg, n, "arguments", ss)>>)

\* z.object([arg]): a new array around the first argument, whose property
\* values were assigned in place
transformNamespaceObjectCall(n, ss) ==
    LET arg == n.arguments[1] IN
    Call(ZMember("object"),
         <<IF arg.type = "ObjectExpression"
           THEN Obj([i \in 1..Len(arg.properties) |->
                       LET prop == arg.properties[i] IN
                       IF IsProperty(prop) /\ IsMappedNsRef(prop.value, ss)
                       THEN [prop EXCEPT !.value =
                               parseZodExpression(MappedType(prop.value.property.name))]
                       ELSE [prop EXCEPT !.value = NsCallT(@, prop, "value", ss)]])
           ELSE NsCallK(arg, n, "arguments", ss)>>)

\* z.enum([...]) around the literal values, or z.union around the SAME
\* arguments array
transformNamespaceUnionCall(n, ss) ==
    IF NsAllLiterals(n.arguments, ss)
    THEN Call(ZMember("enum"),
              <<Arr([i \in 1..Len(n.arguments) |->
                       NsCallK(FirstArgument(n.arguments[i]), n.arguments[i],
                               "arguments", ss)])>>)
    ELSE Call(ZMember("union"),
              <<Arr([i \in 1..Len(n.arguments) |->
                       NsCallT(n.arguments[i], n, "arguments", ss)])>>)

NsCallActs(n, ss) == NsCallMatch(n, ss) /\ Truthy(MappedType(NsCallName(n)))

\* the call is replaced (by a new node) rather than assigned to
NsCallReplaces(n) ==
    \/ NsCallName(n) \in {"Array", "Object", "Union"} /\ Len(n.arguments) > 0
    \/ MappedType(NsCallName(n)).paren

NsCallK(n, p, role, ss) ==
    IF NsCallActs(n, ss) /\ ~NsCallReplaces(n)
    THEN Call(parseZodExpression(MappedType(NsCallName(n))),
              [i \in 1..Len(n.arguments) |-> NsCallT(n.arguments[i], n, "arguments", ss)])
    ELSE MapChildren(n, LAMBDA c, q, r : NsCallT(c, q, r, ss))

NsCallT(n, p, role, ss) ==
    IF NsCallActs(n, ss) /\ NsCallReplaces(n)
    THEN IF NsCallName(n) \in {"Array", "Object", "Union"} /\ Len(n.arguments) > 0
         THEN CASE NsCallName(n) = "Array" -> transformNamespaceArrayCall(n, ss)
                [] NsCallName(n) = "Object" -> transformNamespaceObjectCall(n, ss)
                [] NsCallName(n) = "Union" -> transformNamespaceUnionCall(n, ss)
         ELSE parseZodExpression(MappedType(NsCallName(n)))
    ELSE NsCallK(n, p, role, ss)

transformNamespaceCallExpressions(body, ss) ==
    MapBody(body, LAMBDA c, q, r : NsCallT(c, q, r, ss))

NsCallModifies(body, ss) == \E n \in BodyNodes(body) : NsCallActs(n, ss)

\* the .filter of transformNamespaceMethodCalls
NsMethodMatch(m, ss) ==
    /\ IsMember(m)
    /\ NsRef(m.object, ss)
    /\ InTypeMapping(m.object.property.name)
    /\ IsId(m.property)
    /\ m.property.name \in {"check", "guard", "parse", "safeParse"}

NsMethodActs(m, ss) == NsMethodMatch(m, ss) /\ m.object.property.name \in PrimitiveNames

NsNewMethod(name) ==
    IF name = "guard" THEN "safeParse" ELSE IF name = "check" THEN "parse" ELSE name

baseExpr(m) ==
    Member(parseZodExpression(MappedType(m.object.property.name)),
           Id(NsNewMethod(m.property.name)))

\* a member the stage acts on by replacing its parent call
NsGuardLike(m, ss) == NsMethodActs(m, ss) /\ m.property.name \in {"guard", "safeParse"}

\* the children of a call in the order find collects them
CallChildren(n) == <<n.callee>> \o n.arguments

FirstIndex(sq, P(_)) ==
    IF \E i \in 1..Len(sq) : P(sq[i])
    THEN CHOOSE i \in 1..Len(sq) : P(sq[i]) /\ \A k \in 1..(i - 1) : ~P(sq[k])
    ELSE 0

RECURSIVE NsMethodT(_, _, _, _)
NsMethodT(n, p, role, ss) ==
    LET first == IF IsCall(n)
                 THEN FirstIndex(CallChildren(n), LAMBDA c : NsGuardLike(c, ss))
                 ELSE 0
    IN IF first > 0
       THEN \* j(path.parent).replaceWith(<base call>.success), around the same
            \* arguments array; later guard-like children find a parent that
            \* is no call any more
            Member(Call(baseExpr(CallChildren(n)[first]),
                        [i \in 1..Len(n.arguments) |->
                           NsMethodT(n.arguments[i], n, "arguments", ss)]),
                   Id("success"))
       ELSE IF NsMethodActs(n, ss) /\ ~NsGuardLike(n, ss)
       THEN baseExpr(n)
       ELSE MapChildren(n, LAMBDA c, q, r : NsMethodT(c, q, r, ss))

transformNamespaceMethodCalls(body, ss) ==
    MapBody(body, LAMBDA c, q, r : NsMethodT(c, q, r, ss))

NsMethodModifies(body, ss) == \E n \in BodyNodes(body) : NsMethodActs(n, ss)

\* the .filter of transformNamespaceMemberExpressions, with a truthy mapping
NsMemberMatch(n, ss) ==
    /\ NsRef(n, ss)
    /\ InTypeMapping(n.property.name)
    /\ Truthy(MappedType(n.property.name))

NsMemberActs(n, p, role, ss) ==
    /\ NsMemberMatch(n, ss)
    /\ \/ n.property.name \in PrimitiveNames
       \/ IsCall(p) /\ role = "arguments"
       \/ n.property.name \in CompositeNames

NsMemberProperty(name) ==
    IF name \in {"Object", "Record"} THEN "object"
    ELSE IF name = "Intersect" THEN "intersection"
    ELSE toLowerCase[name]

RECURSIVE NsMemberT(_, _, _, _)
NsMemberT(n, p, role, ss) ==
    IF NsMemberActs(n, p, role, ss)
    THEN IF n.property.name \in PrimitiveNames
         THEN parseZodExpression(MappedType(n.property.name))
         ELSE Member(Id("z"), Id(NsMemberProperty(n.property.name)))
    ELSE MapChildren(n, LAMBDA c, q, r : NsMemberT(c, q, r, ss))

transformNamespaceMemberExpressions(body, ss) ==
    MapBody(body, LAMBDA c, q, r : NsMemberT(c, q, r, ss))

\* every acting case writes z.<something> where <alias>.<Name> stood
NsMemberModifies(body, ss) == transformNamespaceMemberExpressions(body, ss) /= body

NsStaticMatch(s, ss) ==
    /\ s.type = "TSTypeAliasDeclaration"
    /\ s.typeName.type = "TSQualifiedName"
    /\ s.typeName.left = ss.ns
    /\ s.typeName.right = "Static"

transformNamespaceStaticTypes(body, ss) ==
    [i \in 1..Len(body) |->
       IF NsStaticMatch(body[i], ss)
       THEN [body[i] EXCEPT !.typeName = QName("z", "infer")]
       ELSE body[i]]

NsStaticModifies(body, ss) == \E i \in 1..Len(body) : NsStaticMatch(body[i], ss)

\* the four stages of transformNamespaceImports, in its order
NsAfterCalls(body, ss) == transformNamespaceCallExpressions(body, ss)
NsAfterMethods(body, ss) == transformNamespaceMethodCalls(NsAfterCalls(body, ss), ss)
NsAfterMembers(body, ss) ==
    transformNamespaceMemberExpressions(NsAfterMethods(body, ss), ss)

transformNamespaceImports(body, ss) ==
    IF ss.ns = "" THEN body
    ELSE transformNamespaceStaticTypes(NsAfterMembers(body, ss), ss)

NamespaceModifies(body, ss) ==
    /\ ss.ns /= ""
    /\ \/ NsCallModifies(body, ss)
       \/ NsMethodModifies(NsAfterCalls(body, ss), ss)
       \/ NsMemberModifies(NsAfterMethods(body, ss), ss)
       \/ NsStaticModifies(NsAfterMembers(body, ss), ss)

\* --------------------------------------------- transformValidationMethods
\* the .filter of transformValidationMethods
ValidationMatch(m, ss) ==
    /\ IsMember(m)
    /\ IsId(m.property)
    /\ m.property.name \in {"check", "guard", "parse"}
    /\ \/ ss.ns = ""
       \/ ~IsMember(m.object)
       \/ ~IsId(m.object.object)
       \/ m.object.object.name /= ss.ns
    /\ ~(/\ IsCall(m.object)
         /\ IsMember(m.object.callee)
         /\ IsIdNamed(m.object.callee.object, "z"))

ValidationGuard(m, ss) == ValidationMatch(m, ss) /\ m.property.name = "guard"

RECURSIVE ValidationT(_, _, _, _)
RECURSIVE ValidationK(_, _, _, _)

\* the old node object: a matched member has its property renamed in place
ValidationK(n, p, role, ss) ==
    LET kept == MapChildren(n, LAMBDA c, q, r : ValidationT(c, q, r, ss)) IN
    IF ValidationMatch(n, ss)
    THEN [kept EXCEPT !.property =
            [@ EXCEPT !.name = IF n.property.name = "guard" THEN "safeParse"
                               ELSE "parse"]]
    ELSE kept

\* transformGuardToSafeParse: the parent call of the first guard member is
\* replaced by <object>.safeParse(<the same arguments array>).success; a later
\* guard member of the same call finds a parent that is no call any more
transformGuardToSafeParse(n, m, ss) ==
    Member(Call(Member(ValidationK(m.object, m, "object", ss), Id("safeParse")),
                [i \in 1..Len(n.arguments) |->
                   ValidationT(n.arguments[i], n, "arguments", ss)]),
           Id("success"))

ValidationT(n, p, role, ss) ==
    LET first == IF IsCall(n)
                 THEN FirstIndex(CallChildren(n), LAMBDA c : ValidationGuard(c, ss))
                 ELSE 0
    IN IF first > 0
       THEN transformGuardToSafeParse(n, CallChildren(n)[first], ss)
       ELSE ValidationK(n, p, role, ss)

transformValidationMethods(body, ss) ==
    MapBody(body, LAMBDA c, q, r : ValidationT(c, q, r, ss))

ValidationModifies(body, ss) == \E n \in BodyNodes(body) : ValidationMatch(n, ss)

\* ----------------------------------------------------------- processImports
\* importPath.includes("runtypes") || importPath.endsWith("/index.ts"), over
\* the module specifiers of the model
RuntypesSources == {"runtypes", "./schemas/index.ts"}
OtherSources == {"./util", "zod/v4"}

IsRuntypesImport(s) == s.type = "ImportDeclaration" /\ s.source \in RuntypesSources

\* the specifiers of the runtypes imports of the body, in source order
RECURSIVE RuntypesSpecifiers(_)
RuntypesSpecifiers(body) ==
    IF body = <<>> THEN <<>>
    ELSE (IF IsRuntypesImport(Head(body)) THEN Head(body).specifiers ELSE <<>>)
         \o RuntypesSpecifiers(Tail(body))

\* the local name of the last specifier satisfying P, "" when there is none
LastLocal(specs, P(_)) ==
    IF \E i \in 1..Len(specs) : P(specs[i])
    THEN specs[CHOOSE i \in 1..Len(specs) :
                 P(specs[i]) /\ \A k \in (i + 1)..Len(specs) : ~P(specs[k])].local
    ELSE ""

ImportedNames(body) ==
    LET specs == RuntypesSpecifiers(body) IN
    {specs[i].imported : i \in {k \in 1..Len(specs) : specs[k].type = "ImportSpecifier"}}

NamespacePrefix(body) ==
    LastLocal(RuntypesSpecifiers(body), LAMBDA sp : sp.type = "ImportNamespaceSpecifier")

SymbolAlias(body) ==
    LastLocal(RuntypesSpecifiers(body),
              LAMBDA sp : sp.type = "ImportSpecifier" /\ sp.imported = "Symbol")

\* j(path).remove() of every runtypes import
RemoveImports(body) == SelectSeq(body, LAMBDA s : ~IsRuntypesImport(s))

HasRuntypesImport(body) == \E i \in 1..Len(body) : IsRuntypesImport(body[i])

\* ------------------------------------------------------------- addZodImport
ZodImport == ImportDecl("zod/v4", <<ImportSpecifier("z", "z")>>)

addZodImport(body, needs) == IF needs THEN <<ZodImport>> \o body ELSE body

\* ----------------------------------------------------------------- toSource
\* The tree of the printed text: marks are not printed, a built Property
\* prints as an object property, a built Literal (the transform builds only
\* `true` in expression position) as a boolean literal, and the identifier
\* named "z.infer" as the qualified name z.infer.
RECURSIVE PrintNode(_, _, _)
PrintNode(n, p, role) ==
    CASE n.type = "Identifier" -> [n EXCEPT !.jsBuiltin = FALSE]
      [] n.type = "Literal" -> BoolLit(n.value)
      [] n.type = "ObjectExpression" ->
           Obj([i \in 1..Len(n.properties) |->
                  ObjProp(n.properties[i].key,
                          PrintNode(n.properties[i].value, n.properties[i], "value"))])
      [] OTHER -> MapChildren(n, PrintNode)

PrintStatement(s) ==
    IF HasExpr(s) THEN [s EXCEPT !.expr = PrintNode(@, s, "expr")]
    ELSE IF s.type = "TSTypeAliasDeclaration" /\ IsIdNamed(s.typeName, "z.infer")
    THEN [s EXCEPT !.typeName = QName("z", "infer")]
    ELSE s

toSource(body) == [i \in 1..Len(body) |-> PrintStatement(body[i])]

\* -------------------------------------------------------------------- parse
\* The parser records on every identifier where it stands in the text.
RECURSIVE LocateNode(_, _)
LocateNode(n, pos) ==
    CASE n.type = "Identifier" -> [n EXCEPT !.loc = pos]
      [] n.type = "CallExpression" ->
           Call(LocateNode(n.callee, Append(pos, 0)),
                [i \in 1..Len(n.arguments) |-> LocateNode(n.arguments[i], Append(pos, i))])
      [] n.type = "MemberExpression" ->
           Member(LocateNode(n.object, Append(pos, 1)),
                  LocateNode(n.property, Append(pos, 2)))
      [] n.type = "ObjectExpression" ->
           Obj([i \in 1..Len(n.properties) |->
                  [n.properties[i] EXCEPT !.value = LocateNode(@, Append(pos, i))]])
      [] n.type = "ArrayExpression" ->
           Arr([i \in 1..Len(n.elements) |-> LocateNode(n.elements[i], Append(pos, i))])
      [] n.type = "ArrowFunctionExpression" ->
           Arrow([i \in 1..Len(n.params) |-> LocateNode(n.params[i], Append(pos, i))],
                 LocateNode(n.body, Append(pos, 0)))
      [] n.type = "LogicalExpression" ->
           Logical(n.operator, LocateNode(n.left, Append(pos, 1)),
                   LocateNode(n.right, Append(pos, 2)))
      [] OTHER -> n

\* j(file.source): the tree of a text
Parse(text) ==
    [i \in 1..Len(text) |->
       IF HasExpr(text[i]) THEN [text[i] EXCEPT !.expr = LocateNode(@, <<i>>)]
       ELSE text[i]]

\* the text alone: a tree without the positions
RECURSIVE TextNode(_, _, _)
TextNode(n, p, role) ==
    IF IsId(n) THEN [n EXCEPT !.loc = <<>>] ELSE MapChildren(n, TextNode)

Text(body) == MapBody(body, TextNode)

\* ---------------------------------------------------------------- transformer
\* transformer(file, api) as a function of the text: the stages in the order
\* of lines 1542-1552
AfterTypeCalls(r, ss) ==
    transformTypeCallExpressions(
        transformStandaloneTypeIdentifiers(markJsBuiltins(RemoveImports(r)), ss), ss)

AfterNamespace(r, ss) ==
    transformNamespaceImports(
        transformStaticToInfer(transformMethodCalls(AfterTypeCalls(r, ss))), ss)

transformer(text) ==
    LET r == Parse(text)
        ss == [imported |-> ImportedNames(r), ns |-> NamespacePrefix(r),
               symbolAlias |-> SymbolAlias(r)]
        marked == markJsBuiltins(RemoveImports(r))
        standalone == transformStandaloneTypeIdentifiers(marked, ss)
        calls == AfterTypeCalls(r, ss)
        methods == transformMethodCalls(calls)
        static == transformStaticToInfer(methods)
        namespace == AfterNamespace(r, ss)
        modified ==
            \/ HasRuntypesImport(r)
            \/ standalone /= marked
            \/ TypeCallModifies(standalone, ss)
            \/ MethodModifies(calls)
            \/ StaticModifies(methods)
            \/ NamespaceModifies(static, ss)
            \/ ValidationModifies(namespace, ss)
    IN IF modified
       THEN toSource(addZodImport(transformValidationMethods(namespace, ss),
                                  HasRuntypesImport(r)))
       ELSE r

\* ------------------------------------------------------ the source units
\* The units the transformer is run on: one statement behind one of the
\* import preludes.  R(q, name) spells a runtypes name bare or qualified by
\* the namespace alias t.
R(q, name) == IF q THEN Member(Id("t"), Id(name)) ELSE Id(name)

ArgSeqs(S) == UNION {[1..k -> S] : k \in 1..MaxArgs}

NaryConstructors == {"Tuple", "Union", "Intersect"}
UnaryConstructors == {"Array", "Optional"}

Atoms(q) == {R(q, "String"), R(q, "Number"), Id("Foo")}

FlatCalls(q) ==
    {Call(R(q, c), a) : c \in NaryConstructors, a \in ArgSeqs(Atoms(q))}
    \cup {Call(R(q, c), <<a>>) : c \in UnaryConstructors, a \in Atoms(q)}
    \cup {Call(R(q, "Record"), <<k, v>>) : k \in Atoms(q), v \in Atoms(q)}
    \cup {Call(R(q, c), <<Obj(<<ObjProp("a", v)>>)>>) :
            c \in {"Object", "Record"}, v \in Atoms(q)}

LiteralCalls(q) == {Call(R(q, "Literal"), <<StrLit(v)>>) : v \in {"a", "b"}}
LiteralUnions(q) == {Call(R(q, "Union"), a) : a \in ArgSeqs(LiteralCalls(q))}

InnerCalls(q) ==
    {Call(R(q, "Tuple"), <<Id("Foo"), R(q, "String")>>),
     Call(R(q, "Union"), <<Call(R(q, "Literal"), <<StrLit("a")>>),
                           Call(R(q, "Literal"), <<StrLit("b")>>)>>),
     Call(R(q, "Array"), <<R(q, "String")>>),
     Call(R(q, "Optional"), <<R(q, "Number")>>),
     Call(R(q, "Object"), <<Obj(<<ObjProp("a", R(q, "String"))>>)>>),
     Call(R(q, "Literal"), <<StrLit("a")>>)}

NestedCalls(q) ==
    {Call(R(q, c), <<i>>) : c \in NaryConstructors \cup UnaryConstructors,
                            i \in InnerCalls(q)}
    \cup {Call(R(q, c), <<Id("Foo"), i>>) : c \in NaryConstructors, i \in InnerCalls(q)}
    \cup {Call(R(q, "Object"), <<Obj(<<ObjProp("a", i)>>)>>) : i \in InnerCalls(q)}

\* the predicates handed to withConstraint
ConstraintTests ==
    {Call(Member(Id("re"), Id("test")), <<Id("v")>>), Call(Id("Boolean"), <<Id("v")>>)}
ConstraintArguments ==
    UNION {{<<Arrow(<<Id("v")>>, Logical("||", c, StrLit("msg")))>>,
            <<Arrow(<<Id("v")>>, Logical("||", c, StrLit("msg"))),
              Obj(<<ObjProp("name", StrLit("N"))>>)>>,
            <<Arrow(<<Id("v")>>, c)>>,
            <<Arrow(<<Id("v")>>, Logical("||", c, Id("msg")))>>,
            <<Arrow(<<Id("v")>>, Logical("&&", c, StrLit("msg")))>>} : c \in ConstraintTests}
    \cup {<<Id("isValid")>>, <<>>}

MethodArguments(q) ==
    {<<"check", <<Id("data")>>>>, <<"guard", <<Id("data")>>>>,
     <<"parse", <<Id("data")>>>>, <<"safeParse", <<Id("data")>>>>,
     <<"withBrand", <<StrLit("B")>>>>, <<"asReadonly", <<>>>>,
     <<"optional", <<>>>>, <<"nullable", <<>>>>, <<"exact", <<>>>>,
     <<"strict", <<>>>>, <<"passthrough", <<>>>>,
     <<"pick", <<StrLit("a")>>>>, <<"omit", <<StrLit("a"), StrLit("b")>>>>,
     <<"pick", <<Id("keys")>>>>,
     <<"extend", <<Obj(<<ObjProp("a", R(q, "String"))>>)>>>>,
     <<"or", <<R(q, "Number")>>>>, <<"or", <<Id("Bar")>>>>, <<"or", <<>>>>,
     <<"toString", <<>>>>}
    \cup {<<"withConstraint", a>> : a \in ConstraintArguments}

Receivers(q) == {Id("Foo"), R(q, "String")}

MethodCalls(q) ==
    {Call(Member(r, Id(m[1])), m[2]) : r \in Receivers(q), m \in MethodArguments(q)}

ChainedCalls(q) ==
    {Call(Member(Call(Member(Id("Foo"), Id("or")), <<Id("Bar")>>), Id("or")),
          <<Id("Baz")>>),
     Call(Member(Call(Member(Id("Foo"), Id("withBrand")), <<StrLit("B")>>),
                 Id("check")), <<Id("data")>>),
     Call(Member(Call(R(q, "Array"), <<R(q, "String")>>), Id("check")), <<Id("data")>>),
     Call(Member(Call(R(q, "Union"), <<Id("Foo"), Id("Bar")>>), Id("guard")),
          <<Id("data")>>),
     Call(Member(Id("Foo"), Id("check")),
          <<Call(Member(Id("Bar"), Id("guard")), <<Id("data")>>)>>),
     Call(Member(Id("xs"), Id("filter")), <<Member(Id("Foo"), Id("guard"))>>),
     Member(Id("Foo"), Id("guard")),
     Call(R(q, "Union"),
          <<Id("Foo"),
            Call(Member(R(q, "String"), Id("withConstraint")),
                 <<Arrow(<<Id("v")>>,
                         Logical("||", Call(Id("Boolean"), <<Id("v")>>), StrLit("msg")))>>)>>),
     Call(Member(Call(Member(Id("Foo"), Id("withConstraint")),
                      <<Arrow(<<Id("v")>>,
                              Logical("||", Call(Id("Boolean"), <<Id("v")>>),
                                      StrLit("msg")))>>),
                 Id("or")), <<Id("Bar")>>)}

\* uses of the host language's own String, Number, Boolean, Symbol, Array, Object
HostUses ==
    {Call(Id(c), <<Id("x")>>) : c \in {"Boolean", "String", "Number", "Object"}}
    \cup {Call(Id("Symbol"), <<StrLit("s")>>), Call(Id("String"), <<>>),
          Call(Member(Id("items"), Id("filter")), <<Id("Boolean")>>),
          Call(Member(Id("xs"), Id("map")), <<Id("Number")>>),
          Call(Id("f"), <<Id("String"), Id("Symbol")>>),
          Call(Id("flow"), <<Id("Number"), Member(Id("Foo"), Id("guard"))>>),
          Call(Id("Boolean"), <<Member(Id("Foo"), Id("guard"))>>),
          Member(Id("obj"), Id("String")),
          Member(Id("obj"), Id("Symbol")),
          Call(Member(Id("Object"), Id("keys")), <<Id("x")>>),
          Call(Member(Call(Id("Array"), <<NumLit(5)>>), Id("keys")), <<>>),
          Call(Id("Tuple"), <<Id("Foo"), Call(Id("Boolean"), <<Id("x")>>)>>),
          Call(Id("Object"),
               <<Obj(<<ObjProp("a", Call(Member(Id("items"), Id("filter")),
                                         <<Id("Boolean")>>))>>)>>)}

References(q) == {R(q, "String"), R(q, "Boolean"), R(q, "Symbol"), Id("Foo")}

Expressions(q) ==
    FlatCalls(q) \cup LiteralUnions(q) \cup NestedCalls(q) \cup MethodCalls(q)
    \cup ChainedCalls(q) \cup References(q)

GuardCalls(q) ==
    {Call(Member(r, Id(m)), <<Id("data")>>) :
       r \in Receivers(q), m \in {"guard", "check", "safeParse"}}

Statements(q) ==
    {<<Const("X", e)>> : e \in Expressions(q)}
    \cup {<<IfStmt(e)>> : e \in GuardCalls(q)}
    \cup {<<TypeAlias("T", IF q THEN QName("t", "Static") ELSE Id("Static"), "X")>>}

HostStatements == {<<Const("X", e)>> : e \in HostUses}

Named(names) ==
    ImportDecl("runtypes", [i \in 1..Len(names) |-> ImportSpecifier(names[i], names[i])])

NamedAll ==
    Named(<<"String", "Number", "Boolean", "Symbol", "Array", "Tuple", "Union",
            "Intersect", "Optional", "Object", "Record", "Literal", "Static">>)
NamedConstructors ==
    Named(<<"Tuple", "Union", "Intersect", "Optional", "Record", "Literal", "Static">>)
NamedPrimitives == Named(<<"String", "Number", "Boolean">>)
Namespace == ImportDecl("runtypes", <<ImportNamespaceSpecifier("t")>>)
IndexNamed ==
    ImportDecl("./schemas/index.ts",
               <<ImportSpecifier("Foo", "Foo"), ImportSpecifier("Bar", "Bar")>>)

\* preludes under which bare names are used, and those that bind the alias t
BarePreludes ==
    {<<>>, <<NamedAll>>, <<NamedConstructors>>, <<NamedPrimitives>>, <<Namespace>>,
     <<NamedAll, Namespace>>, <<IndexNamed>>}
QualifiedPreludes == {<<Namespace>>, <<NamedAll, Namespace>>}

\* imports of other modules standing beside the runtypes imports, and units
\* with several runtypes imports
UtilImport == ImportDecl("./util", <<ImportSpecifier("helper", "helper")>>)
ExistingZodImport == ImportDecl("zod/v4", <<ImportSpecifier("z", "z")>>)
MixedPreludes ==
    {<<UtilImport>>, <<UtilImport, NamedAll>>, <<NamedAll, UtilImport>>,
     <<ExistingZodImport>>, <<ExistingZodImport, NamedAll>>,
     <<NamedPrimitives, NamedConstructors>>, <<NamedPrimitives, UtilImport, Namespace>>}
MixedStatements ==
    {<<Const("X", e)>> : e \in References(FALSE) \cup MethodCalls(FALSE)}
    \cup {<<TypeAlias("T", Id("Static"), "X")>>, <<Const("X", Id("helper"))>>}

\* units whose imports name the other primitives of the table, rename what
\* they import, or bind a second namespace alias
NamespaceA == ImportDecl("runtypes", <<ImportNamespaceSpecifier("a")>>)
SpecialUnits ==
    {<<Named(<<"BigInt", "Null", "Undefined", "Unknown", "Void", "Never", "Object">>),
       Const("X", e)>> :
       e \in {Id(p) : p \in {"BigInt", "Null", "Undefined", "Unknown", "Void", "Never"}}
              \cup {Call(Id("Object"), <<Obj(<<ObjProp("a", Id("Null"))>>)>>)}}
    \cup {<<ImportDecl("runtypes", <<ImportSpecifier("String", "Str"),
                                     ImportSpecifier("Symbol", "Sym")>>),
            Const("X", e)>> :
            e \in {Id("Str"), Id("String"), Id("Sym"), Id("Symbol"),
                   Call(Member(Id("xs"), Id("map")), <<Id("String")>>)}}
    \cup {<<NamespaceA, Namespace, Const("X", e)>> :
            e \in {Member(Id("a"), Id("String")), Member(Id("t"), Id("String")),
                   Call(Member(Id("a"), Id("Array")), <<Member(Id("a"), Id("String"))>>),
                   Call(Member(Id("t"), Id("Array")), <<Member(Id("a"), Id("String"))>>),
                   Call(Member(Member(Id("a"), Id("String")), Id("check")),
                        <<Id("data")>>)}}

Units ==
    {pre \o st : pre \in BarePreludes, st \in Statements(FALSE) \cup HostStatements}
    \cup {pre \o st : pre \in QualifiedPreludes, st \in Statements(TRUE)}
    \cup {pre \o st : pre \in MixedPreludes, st \in MixedStatements}
    \cup SpecialUnits

\* ------------------------------------------------------------ the machine
\* One run of transformer(file, api) is the walk of pc through its stages
\* (lines 1542-1552); Rerun hands the returned text to a further run.
VARIABLES
    source,                     \* file.source, as the tree the parser yields
    root,                       \* the working tree
    importedRuntypesBuiltins,
    namespacePrefix,            \* "" for null
    symbolAlias,                \* "" for null
    hasModifications,
    needsZodImport,
    pc,                         \* the stage to run next
    result,                     \* the text the transformer returned
    pass                        \* the number of the run

vars == <<source, root, importedRuntypesBuiltins, namespacePrefix, symbolAlias,
          hasModifications, needsZodImport, pc, result, pass>>

session ==
    [imported |-> importedRuntypesBuiltins, ns |-> namespacePrefix,
     symbolAlias |-> symbolAlias]

Init ==
    /\ source \in {Parse(u) : u \in Units}
    /\ root = source
    /\ importedRuntypesBuiltins = {}
    /\ namespacePrefix = ""
    /\ symbolAlias = ""
    /\ hasModifications = FALSE
    /\ needsZodImport = FALSE
    /\ pc = "processImports"
    /\ result = <<>>
    /\ pass = 1

\* a stage that rewrites the tree and may set hasModifications
Stage(here, next, tree, modifies) ==
    /\ pc = here
    /\ pc' = next
    /\ root' = tree
    /\ hasModifications' = (hasModifications \/ modifies)
    /\ UNCHANGED <<source, importedRuntypesBuiltins, namespacePrefix, symbolAlias,
                   needsZodImport, result, pass>>

ProcessImports ==
    /\ pc = "processImports"
    /\ pc' = "markJsBuiltins"
    /\ importedRuntypesBuiltins' = ImportedNames(root)
    /\ namespacePrefix' = NamespacePrefix(root)
    /\ symbolAlias' = SymbolAlias(root)
    /\ needsZodImport' = HasRuntypesImport(root)
    /\ hasModifications' = HasRuntypesImport(root)
    /\ root' = RemoveImports(root)
    /\ UNCHANGED <<source, result, pass>>

\* marking that also rewrites the standalone identifiers, in one step
RewriteWhileMarking ==
    Stage("markJsBuiltins", "transformTypeCallExpressions",
          transformStandaloneTypeIdentifiers(markJsBuiltins(root), session),
          transformStandaloneTypeIdentifiers(markJsBuiltins(root), session)
             /= markJsBuiltins(root))

MarkJsBuiltins ==
    Stage("markJsBuiltins", "transformStandaloneTypeIdentifiers",
          markJsBuiltins(root), FALSE)

TransformStandaloneTypeIdentifiers ==
    Stage("transformStandaloneTypeIdentifiers", "transformTypeCallExpressions",
          transformStandaloneTypeIdentifiers(root, session),
          transformStandaloneTypeIdentifiers(root, session) /= root)

TransformTypeCallExpressions ==
    Stage("transformTypeCallExpressions", "transformMethodCalls",
          transformTypeCallExpressions(root, session), TypeCallModifies(root, session))

TransformMethodCalls ==
    Stage("transformMethodCalls", "transformStaticToInfer",
          transformMethodCalls(root), MethodModifies(root))

TransformStaticToInfer ==
    Stage("transformStaticToInfer", "transformNamespaceImports",
          transformStaticToInfer(root), StaticModifies(root))

TransformNamespaceImports ==
    Stage("transformNamespaceImports", "transformValidationMethods",
          transformNamespaceImports(root, session), NamespaceModifies(root, session))

TransformValidationMethods ==
    Stage("transformValidationMethods", "addZodImport",
          transformValidationMethods(root, session), ValidationModifies(root, session))

AddZodImport ==
    Stage("addZodImport", "return", addZodImport(root, needsZodImport), FALSE)

\* return hasModifications ? root.toSource() : file.source
Return ==
    /\ pc = "return"
    /\ pc' = "done"
    /\ result' = IF hasModifications THEN toSource(root) ELSE source
    /\ UNCHANGED <<source, root, importedRuntypesBuiltins, namespacePrefix,
                   symbolAlias, hasModifications, needsZodImport, pass>>

\* the transformer is run on the text it returned
Rerun ==
    /\ pc = "done"
    /\ pass < MaxPasses
    /\ pass' = pass + 1
    /\ source' = Parse(Text(result))
    /\ root' = Parse(Text(result))
    /\ importedRuntypesBuiltins' = {}
    /\ namespacePrefix' = ""
    /\ symbolAlias' = ""
    /\ hasModifications' = FALSE
    /\ needsZodImport' = FALSE
    /\ pc' = "processImports"
    /\ result' = <<>>

Next ==
    \/ ProcessImports
    \/ MarkJsBuiltins
    \/ TransformStandaloneTypeIdentifiers
    \/ TransformTypeCallExpressions
    \/ TransformMethodCalls
    \/ TransformStaticToInfer
    \/ TransformNamespaceImports
    \/ TransformValidationMethods
    \/ AddZodImport
    \/ Return
    \/ Rerun

Spec == Init /\ [][Next]_vars

\* ------------------------------------------------- several calls at once
\* Two calls of transformer(file, api) whose stages interleave.  root,
\* importedRuntypesBuiltins, hasModifications, needsZodImport, namespacePrefix
\* and symbolAlias are declared inside the function (lines 471-479), so each
\* call has its own: in this specification every variable holds, for each
\* call, that call's value.  typeMapping and methodMapping are module-level
\* constants no statement assigns to.
MaxCalls == 2
Calls == 1..MaxCalls

IsolationUnits ==
    {<<NamedAll, Const("X", Call(Id("Array"), <<Id("String")>>))>>,
     <<Namespace, Const("X", Call(R(TRUE, "Array"), <<R(TRUE, "String")>>))>>,
     <<Namespace, Const("X", Id("String"))>>,
     <<UtilImport, NamedPrimitives, Const("X", Id("String"))>>,
     <<Const("X", Call(Member(Call(Id("Array"), <<NumLit(5)>>), Id("keys")), <<>>))>>,
     <<NamedAll, TypeAlias("T", Id("Static"), "X")>>}

\* the session state as if it were declared at module level: what the call
\* that began first has set
SharedSession(i) ==
    [imported |-> importedRuntypesBuiltins[1], ns |-> namespacePrefix[1],
     symbolAlias |-> symbolAlias[1]]

\* the closure variables of call i
CallSession(i) ==
    [imported |-> importedRuntypesBuiltins[i], ns |-> namespacePrefix[i],
     symbolAlias |-> symbolAlias[i]]

IsolationInit ==
    /\ source \in [Calls -> {Parse(u) : u \in IsolationUnits}]
    /\ root = source
    /\ importedRuntypesBuiltins = [i \in Calls |-> {}]
    /\ namespacePrefix = [i \in Calls |-> ""]
    /\ symbolAlias = [i \in Calls |-> ""]
    /\ hasModifications = [i \in Calls |-> FALSE]
    /\ needsZodImport = [i \in Calls |-> FALSE]
    /\ pc = [i \in Calls |-> "processImports"]
    /\ result = [i \in Calls |-> <<>>]
    /\ pass = 1

\* a stage of call i
CallStage(i, here, next, tree, modifies) ==
    /\ pc[i] = here
    /\ pc' = [pc EXCEPT ![i] = next]
    /\ root' = [root EXCEPT ![i] = tree]
    /\ hasModifications' = [hasModifications EXCEPT ![i] = @ \/ modifies]
    /\ UNCHANGED <<source, importedRuntypesBuiltins, namespacePrefix, symbolAlias,
                   needsZodImport, result, pass>>

CallProcessImports(i) ==
    /\ pc[i] = "processImports"
    /\ pc' = [pc EXCEPT ![i] = "markJsBuiltins"]
    /\ importedRuntypesBuiltins' =
          [importedRuntypesBuiltins EXCEPT ![i] = ImportedNames(root[i])]
    /\ namespacePrefix' = [namespacePrefix EXCEPT ![i] = NamespacePrefix(root[i])]
    /\ symbolAlias' = [symbolAlias EXCEPT ![i] = SymbolAlias(root[i])]
    /\ needsZodImport' = [needsZodImport EXCEPT ![i] = HasRuntypesImport(root[i])]
    /\ hasModifications' = [hasModifications EXCEPT ![i] = HasRuntypesImport(root[i])]
    /\ root' = [root EXCEPT ![i] = RemoveImports(@)]
    /\ UNCHANGED <<source, result, pass>>

CallMarkJsBuiltins(i) ==
    CallStage(i, "markJsBuiltins", "transformStandaloneTypeIdentifiers",
              markJsBuiltins(root[i]), FALSE)

CallStandaloneTypeIdentifiers(i) ==
    CallStage(i, "transformStandaloneTypeIdentifiers", "transformTypeCallExpressions",
              transformStandaloneTypeIdentifiers(root[i], CallSession(i)),
              transformStandaloneTypeIdentifiers(root[i], CallSession(i)) /= root[i])

CallTypeCallExpressions(i) ==
    CallStage(i, "transformTypeCallExpressions", "transformMethodCalls",
              transformTypeCallExpressions(root[i], CallSession(i)),
              TypeCallModifies(root[i], CallSession(i)))

CallMethodCalls(i) ==
    CallStage(i, "transformMethodCalls", "transformStaticToInfer",
              transformMethodCalls(root[i]), MethodModifies(root[i]))

CallStaticToInfer(i) ==
    CallStage(i, "transformStaticToInfer", "transformNamespaceImports",
              transformStaticToInfer(root[i]), StaticModifies(root[i]))

CallNamespaceImports(i) ==
    CallStage(i, "transformNamespaceImports", "transformValidationMethods",
              transformNamespaceImports(root[i], CallSession(i)),
              NamespaceModifies(root[i], CallSession(i)))

CallValidationMethods(i) ==
    CallStage(i, "transformValidationMethods", "addZodImport",
              transformValidationMethods(root[i], CallSession(i)),
              ValidationModifies(root[i], CallSession(i)))

CallAddZodImport(i) ==
    CallStage(i, "addZodImport", "return", addZodImport(root[i], needsZodImport[i]),
              FALSE)

CallReturn(i) ==
    /\ pc[i] = "return"
    /\ pc' = [pc EXCEPT ![i] = "done"]
    /\ result' = [result EXCEPT
                    ![i] = IF hasModifications[i] THEN toSource(root[i]) ELSE source[i]]
    /\ UNCHANGED <<source, root, importedRuntypesBuiltins, namespacePrefix,
                   symbolAlias, hasModifications, needsZodImport, pass>>

IsolationNext ==
    \E i \in Calls :
       \/ CallProcessImports(i)
       \/ CallMarkJsBuiltins(i)
       \/ CallStandaloneTypeIdentifiers(i)
       \/ CallTypeCallExpressions(i)
       \/ CallMethodCalls(i)
       \/ CallStaticToInfer(i)
       \/ CallNamespaceImports(i)
       \/ CallValidationMethods(i)
       \/ CallAddZodImport(i)
       \/ CallReturn(i)

IsolationSpec == IsolationInit /\ [][IsolationNext]_vars

\* ============================================================ properties
Done == pc = "done"

\* an occurrence: a node with the parent and the field it stands in
Occurrence(n, p, role) == [node |-> n, parent |-> p, role |-> role]

ChildOccurrences(n) ==
    CASE n.type = "CallExpression" ->
           {Occurrence(n.callee, n, "callee")}
           \cup {Occurrence(n.arguments[i], n, "arguments") : i \in 1..Len(n.arguments)}
      [] n.type = "MemberExpression" ->
           {Occurrence(n.object, n, "object"), Occurrence(n.property, n, "property")}
      [] n.type = "ObjectExpression" ->
           {Occurrence(n.properties[i].value, n.properties[i], "value") :
              i \in 1..Len(n.properties)}
      [] n.type = "ArrayExpression" ->
           {Occurrence(n.elements[i], n, "elements") : i \in 1..Len(n.elements)}
      [] n.type = "ArrowFunctionExpression" ->
           {Occurrence(n.body, n, "body")}
           \cup {Occurrence(n.params[i], n, "params") : i \in 1..Len(n.params)}
      [] n.type = "LogicalExpression" ->
           {Occurrence(n.left, n, "left"), Occurrence(n.right, n, "right")}
      [] OTHER -> {}

RECURSIVE Occurrences(_)
Occurrences(o) == {o} \cup UNION {Occurrences(c) : c \in ChildOccurrences(o.node)}

BodyOccurrences(body) ==
    UNION {Occurrences(Occurrence(body[i].expr, body[i], "expr")) :
             i \in {k \in 1..Len(body) : HasExpr(body[k])}}

\* the text of one expression
ExprText(n) == TextNode(n, None, "")

\* a bare identifier: not the property of a member access
IsBare(o) == IsId(o.node) /\ ~(IsMember(o.parent) /\ o.role = "property")

\* the callee names a runtypes constructor, bare or through the alias
IsConstructorCallee(c, alias) ==
    \/ IsId(c) /\ InTypeMapping(c.name)
    \/ /\ IsMember(c) /\ IsIdNamed(c.object, alias)
       /\ IsId(c.property) /\ InTypeMapping(c.property.name)

\* the very identifier of occurrence o (same name, same place in the text)
\* stands in the returned text, in the field o stood in when that is asked
Survives(o, sameRole) ==
    \E o2 \in BodyOccurrences(result) :
       /\ o2.node = o.node
       /\ sameRole => (o2.role = o.role /\ o2.parent.type = o.parent.type)

\* the machine returns what the function of the text returns
ReturnsTransformer == Done => result = transformer(Text(source))

\* ----------------------------------------------------------------------- C1
\* C1: a unit without any import from the runtypes module is returned
\* unchanged, whatever look-alike code it holds.
NoOpWithoutRuntypesImport ==
    (Done /\ ~HasRuntypesImport(source)) => Text(result) = Text(source)

\* ----------------------------------------------------------------------- C2
\* C2: running the transformer on its own output returns that output:
\* transformer(transformer(u)) = transformer(u).
Idempotence == (Done /\ pass > 1) => Text(result) = Text(source)

\* ----------------------------------------------------------------------- C3
\* the identifiers String, Number, Boolean, Symbol in host-language use: the
\* callee of a call, an argument of a call that is no runtypes constructor, the
\* property of a member access on something other than the namespace alias
HostBuiltinUses(body) ==
    LET alias == NamespacePrefix(body) IN
    {o \in BodyOccurrences(body) :
       /\ IsId(o.node)
       /\ o.node.name \in JsBuiltinNames
       /\ \/ IsCall(o.parent) /\ o.role = "callee"
          \/ /\ IsCall(o.parent) /\ o.role = "arguments"
             /\ ~IsConstructorCallee(o.parent.callee, alias)
          \/ /\ IsMember(o.parent) /\ o.role = "property"
             /\ ~IsIdNamed(o.parent.object, alias)}

\* C3: every identifier String, Number, Boolean or Symbol in host-language use
\* (callee of a call; argument of a call that is no runtypes constructor;
\* member property on a non-alias object) stands unchanged in the output, a
\* callee still as the callee and a property still as the property.
BuiltinSafety ==
    Done => \A o \in HostBuiltinUses(source) : Survives(o, o.role /= "arguments")

\* ----------------------------------------------------------------------- C4
\* C4: a bare identifier String, Number, Boolean or Symbol whose name the unit
\* does not import from runtypes is never rewritten, wherever it stands (also
\* as an Object field value or as an argument of Array, Union, Tuple,
\* Intersect, Optional): it stands unchanged in the output.
UnimportedBuiltinNamesKept ==
    Done =>
      \A o \in BodyOccurrences(source) :
         (/\ IsBare(o)
          /\ o.node.name \in JsBuiltinNames
          /\ o.node.name \notin ImportedNames(source))
         => Survives(o, FALSE)

\* ----------------------------------------------------------------------- C5
\* C5: a call whose callee is a bare constructor name of the table is
\* rewritten only if the unit imports that name from runtypes: the callee of a
\* call to a name that is not imported (Array(5).keys(), Object(value)) stays.
OnlyImportedConstructorsRewritten ==
    Done =>
      \A o \in BodyOccurrences(source) :
         (/\ IsCall(o.parent) /\ o.role = "callee"
          /\ IsId(o.node)
          /\ InTypeMapping(o.node.name)
          /\ o.node.name \notin ImportedNames(source))
         => Survives(o, TRUE)

\* the statements holding an expression, in order, and the imports of a unit
ExprStatements(body) == SelectSeq(body, HasExpr)
Imports(body) == SelectSeq(body, LAMBDA st : st.type = "ImportDeclaration")

\* what the transformer makes of expression a under the imports of the unit
RewrittenForm(a, body) ==
    ExprStatements(transformer(Text(Imports(body)) \o <<Const("A", ExprText(a))>>))[1].expr

\* ----------------------------------------------------------------------- C6
NaryTarget == [Tuple |-> "tuple", Union |-> "union", Intersect |-> "intersection"]

\* C6: a statement whose expression is a call Tuple(a1..aN), Union(a1..aN)
\* (not all Literal calls) or Intersect(a1..aN), N >= 1, of a name imported
\* from runtypes (every name the unit uses being imported by name) comes out as
\* z.tuple / z.union / z.intersection of one array literal of length N whose
\* i-th element is the rewritten form of ai.
NaryConstructorShape ==
    (/\ Done
     /\ NamespacePrefix(source) = ""
     /\ {"String", "Number", "Array", "Tuple", "Union", "Intersect", "Optional",
         "Object", "Literal"} \subseteq ImportedNames(source))
    => \A k \in 1..Len(ExprStatements(source)) :
         LET e == ExprStatements(source)[k].expr
             out == ExprStatements(result)[k].expr
         IN (/\ IsCall(e)
             /\ IsId(e.callee)
             /\ e.callee.name \in DOMAIN NaryTarget
             /\ Len(e.arguments) >= 1
             /\ ~(e.callee.name = "Union" /\ AllLiterals(e.arguments)))
            => /\ IsCall(out)
               /\ ExprText(out.callee) = ZMember(NaryTarget[e.callee.name])
               /\ Len(out.arguments) = 1
               /\ out.arguments[1].type = "ArrayExpression"
               /\ Len(out.arguments[1].elements) = Len(e.arguments)
               /\ \A i \in 1..Len(e.arguments) :
                     ExprText(out.arguments[1].elements[i])
                        = ExprText(RewrittenForm(e.arguments[i], source))

\* ----------------------------------------------------------------------- C7
\* a Union call all of whose arguments are Literal calls, bare (both names
\* imported) or qualified by the namespace alias
IsLiteralUnion(n, body) ==
    /\ IsCall(n)
    /\ Len(n.arguments) >= 1
    /\ \/ /\ IsIdNamed(n.callee, "Union")
          /\ {"Union", "Literal"} \subseteq ImportedNames(body)
          /\ AllLiterals(n.arguments)
       \/ /\ NamespacePrefix(body) /= ""
          /\ NsRef(n.callee, [ns |-> NamespacePrefix(body)])
          /\ n.callee.property.name = "Union"
          /\ NsAllLiterals(n.arguments, [ns |-> NamespacePrefix(body)])

LiteralValues(n) == [i \in 1..Len(n.arguments) |-> FirstArgument(n.arguments[i])]

\* a call Literal(..), <alias>.Literal(..) or z.literal(..)
IsLiteralWrapper(m) ==
    /\ IsCall(m)
    /\ \/ IsIdNamed(m.callee, "Literal")
       \/ /\ IsMember(m.callee) /\ IsId(m.callee.property)
          /\ m.callee.property.name \in {"Literal", "literal"}

\* C7: every Union call whose arguments are all Literal(v) calls, bare or
\* qualified, wherever it stands, comes out as z.enum([v1, .., vN]) with the
\* values in source order, and no Literal( / z.literal( wrapper of one of the
\* values remains.
LiteralUnionCollapses ==
    Done =>
      \A n \in BodyNodes(source) :
         IsLiteralUnion(n, source)
         => /\ \E m \in BodyNodes(result) :
                  ExprText(m) = Call(ZMember("enum"), <<Arr(LiteralValues(n))>>)
            /\ \A m \in BodyNodes(result) :
                  ~(/\ IsLiteralWrapper(m)
                    /\ \E i \in 1..Len(n.arguments) : m.arguments = n.arguments[i].arguments)

\* ----------------------------------------------------------------------- C8
IsWithConstraintCall(n) == MethodMatch(n) /\ MethodName(n) = "withConstraint"

\* the arguments C8 states for the rewritten call
RefineArguments(n) ==
    IF ConstraintShape(n)
    THEN <<Arrow(n.arguments[1].params, n.arguments[1].body.left),
           n.arguments[1].body.right>>
    ELSE n.arguments

\* the call of the output whose method name is the renamed name of call n
RefineCallOf(n) ==
    {m \in BodyNodes(result) :
       /\ IsCall(m) /\ IsMember(m.callee) /\ IsId(m.callee.property)
       /\ m.callee.property.loc = n.callee.property.loc}

GuardInIfGetsSuccess ==
    (Done /\ HasRuntypesImport(source) /\ NamespacePrefix(source) = "")
    => \A k \in 1..Len(ExprStatements(source)) :
         LET st == ExprStatements(source)[k]
             out == ExprStatements(result)[k].expr
         IN (/\ st.type = "IfStatement"
             /\ IsCall(st.expr)
             /\ IsMember(st.expr.callee)
             /\ IsIdNamed(st.expr.callee.property, "guard"))
            => /\ IsMember(out)
               /\ IsIdNamed(out.property, "success")
               /\ IsCall(out.object)
               /\ IsMember(out.object.callee)
               /\ IsIdNamed(out.object.callee.property, "safeParse")
               /\ out.object.arguments = st.expr.arguments

\* ---------------------------------------------------------------------- C10
\* a call of Record, bare (the name imported) or qualified by the alias
IsRecordCall(n, body) ==
    /\ IsCall(n)
    /\ \/ IsIdNamed(n.callee, "Record") /\ "Record" \in ImportedNames(body)
       \/ /\ NamespacePrefix(body) /= ""
          /\ NsRef(n.callee, [ns |-> NamespacePrefix(body)])
          /\ n.callee.property.name = "Record"

\* the calls of the output to z.<name> with k arguments
ZodCalls(name, k) ==
    {m \in BodyNodes(result) :
       IsCall(m) /\ ExprText(m.callee) = ZMember(name) /\ Len(m.arguments) = k}

\* C10: a Record call with one object-literal argument comes out as
\* z.object({...}), a Record call with two arguments as z.record(K', V'),
\* bare and qualified alike.
RecordDisambiguation ==
    Done =>
      \A n \in BodyNodes(source) :
         IsRecordCall(n, source)
         => /\ (Len(n.arguments) = 1 /\ n.arguments[1].type = "ObjectExpression")
                  => \E m \in ZodCalls("object", 1) :
                        m.arguments[1].type = "ObjectExpression"
            /\ Len(n.arguments) = 2 => ZodCalls("record", 2) /= {}

\* ---------------------------------------------------------------------- C11
\* the member accesses <alias>.<Name> of a tree, Name a key of the type table
AliasReferences(body, alias) ==
    {m \in BodyNodes(body) :
       /\ IsMember(m) /\ IsIdNamed(m.object, alias)
       /\ IsId(m.property) /\ InTypeMapping(m.property.name)}

\* C11: for a unit with a namespace import of runtypes, the output holds no
\* member access through the alias for a member of the type table, whatever
\* position the qualified reference stood in.
NoAliasReferenceLeft ==
    (Done /\ NamespacePrefix(source) /= "")
    => AliasReferences(result, NamespacePrefix(source)) = {}

\* ---------------------------------------------------------------------- C12
IsZodImport(st) == st.type = "ImportDeclaration" /\ st.source \in {"zod", "zod/v4"}

\* the number of imports of zod among the statements of a text
ZodImportCount(body) == Len(SelectSeq(body, IsZodImport))

\* C12: for a unit that holds no import of zod, the output holds exactly one
\* import of z from zod when any rewrite occurred (hasModifications is true at
\* the end), whichever stage made it and however many runtypes imports were
\* removed, and none when no rewrite occurred.
ExactlyOneZodImport ==
    (Done /\ ZodImportCount(source) = 0)
    => ZodImportCount(result) = (IF hasModifications THEN 1 ELSE 0)

\* ---------------------------------------------------------------------- C13
\* the indices of the import statements of a text other than those of zod
OtherImportIndices(body) ==
    {i \in 1..Len(body) : body[i].type = "ImportDeclaration" /\ ~IsZodImport(body[i])}

\* C13: when the transform inserted the zod import, that import stands
\* immediately after the last import statement remaining in the output, and
\* is the first statement only when no other import statement remains.
ZodImportAfterLastImport ==
    (Done /\ ZodImportCount(source) = 0 /\ ZodImportCount(result) = 1)
    => \A i \in 1..Len(result) :
          IsZodImport(result[i])
          => /\ \A k \in OtherImportIndices(result) : k < i
             /\ i = 1 \/ (i - 1) \in OtherImportIndices(result)

\* ---------------------------------------------------------------------- C14
\* C14: a unit that already holds an import of zod comes out with exactly
\* that one import of zod.
NoSecondZodImport ==
    (Done /\ ZodImportCount(source) = 1) => ZodImportCount(result) = 1

\* ---------------------------------------------------------------------- C15
\* a call Optional(T) of one argument, bare (the runtypes names imported by
\* name) or qualified by the namespace alias
IsOptionalCall(n, body) ==
    /\ IsCall(n)
    /\ Len(n.arguments) = 1
    /\ \/ /\ IsIdNamed(n.callee, "Optional")
          /\ {"String", "Number", "Array", "Tuple", "Union", "Intersect", "Optional",
              "Object", "Literal"} \subseteq ImportedNames(body)
       \/ /\ NamespacePrefix(body) /= ""
          /\ NsRef(n.callee, [ns |-> NamespacePrefix(body)])
          /\ n.callee.property.name = "Optional"

\* a call whose callee is Optional, <alias>.Optional or z.optional
IsOptionalWrapper(m, alias) ==
    /\ IsCall(m)
    /\ \/ IsIdNamed(m.callee, "Optional")
       \/ /\ IsMember(m.callee) /\ IsId(m.callee.object) /\ IsId(m.callee.property)
          /\ \/ m.callee.object.name = "z" /\ m.callee.property.name = "optional"
             \/ m.callee.object.name = alias /\ m.callee.property.name = "Optional"

\* C15: every call Optional(T) of one argument, bare or qualified, comes out
\* as T'.optional(), T' the rewritten form of T and the call to optional
\* having no arguments, and no call to Optional or z.optional remains.
OptionalBecomesSuffix ==
    Done =>
      \A n \in BodyNodes(source) :
         IsOptionalCall(n, source)
         => /\ \E m \in BodyNodes(result) :
                  ExprText(m) =
                     Call(Member(ExprText(RewrittenForm(n.arguments[1], source)),
                                 Id("optional")), <<>>)
            /\ \A m \in BodyNodes(result) :
                  ~IsOptionalWrapper(m, NamespacePrefix(source))

\* ---------------------------------------------------------------------- C16
FreeFunction == [strict |-> "strictObject", passthrough |-> "looseObject"]

\* a method call recv.strict() or recv.passthrough()
IsStrictnessCall(n) ==
    /\ IsCall(n) /\ IsMember(n.callee) /\ IsId(n.callee.property)
    /\ n.callee.property.name \in DOMAIN FreeFunction
    /\ n.arguments = <<>>

\* C16: in a unit that imports runtypes, every call recv.strict() comes out
\* as z.strictObject(recv') and every call recv.passthrough() as
\* z.looseObject(recv'), recv' the rewritten
\* receiver as the single argument; the method call itself does not remain
\* under its own name nor as recv.strictObject() / recv.looseObject().
StrictBecomesFreeFunction ==
    (Done /\ HasRuntypesImport(source)) =>
      \A n \in BodyNodes(source) :
         IsStrictnessCall(n)
         => /\ \E m \in ZodCalls(FreeFunction[n.callee.property.name], 1) :
                  ExprText(m.arguments[1])
                     = ExprText(RewrittenForm(n.callee.object, source))
            /\ \A m \in BodyNodes(result) :
                  ~(/\ IsCall(m) /\ IsMember(m.callee) /\ IsId(m.callee.property)
                    /\ m.callee.property.loc = n.callee.property.loc)

\* ---------------------------------------------------------------------- C17
\* a call of a renamed schema method on a bare primitive the unit imports by
\* name from runtypes
IsPrimitiveReceiverCall(n, body) ==
    /\ MethodMatch(n)
    /\ methodMapping[MethodName(n)] /= ""
    /\ IsId(n.callee.object)
    /\ n.callee.object.name \in {"String", "Number", "Boolean"}
    /\ n.callee.object.name \in ImportedNames(body)
    /\ NamespacePrefix(body) = ""

\* C17: a bare String, Number or Boolean imported by name from runtypes that
\* is the receiver of a renamed schema method call comes out rewritten: the
\* call stands in the output under the new method name with the receiver
\* z.string() / z.number() / z.boolean(), never the bare identifier.
PrimitiveReceiverRewritten ==
    Done =>
      \A n \in BodyNodes(source) :
         IsPrimitiveReceiverCall(n, source)
         => /\ RefineCallOf(n) /= {}
            /\ \A m \in RefineCallOf(n) :
                  /\ m.callee.property.name = methodMapping[MethodName(n)]
                  /\ ExprText(m.callee.object)
                        = parseZodExpression(MappedType(n.callee.object.name))

\* ---------------------------------------------------------------------- C18
\* C18: of two calls of the transformer whose stages interleave in any order,
\* each returns what the transformer returns for its own unit alone.
PerUnitIsolation ==
    \A i \in Calls :
       pc[i] = "done" => result[i] = transformer(Text(source[i]))

\* one call has returned the rewritten text of a unit with named imports
\* while another call, for a unit with a namespace import, stands between its
\* stages with its own session state
PerUnitIsolationWitness ==
    /\ pc[1] = "done"
    /\ pc[2] = "transformMethodCalls"
    /\ namespacePrefix[1] = "" /\ namespacePrefix[2] /= ""
    /\ importedRuntypesBuiltins[1] /= {} /\ importedRuntypesBuiltins[2] = {}
    /\ hasModifications[1]
    /\ Text(result[1]) /= Text(source[1])
    /\ result[1] = transformer(Text(source[1]))

\* ---------------------------------------------------------------------- C19
ConstructorNames ==
    {"Array", "Tuple", "Union", "Intersect", "Optional", "Object", "Record", "Literal"}

\* a call of a zod constructor, and a call of a bare runtypes constructor
IsZodCall(m) == IsCall(m) /\ IsMember(m.callee) /\ IsIdNamed(m.callee.object, "z")
IsRuntypesCall(m) == IsCall(m) /\ IsId(m.callee) /\ m.callee.name \in ConstructorNames

\* what is left of runtypes below node m: calls of bare constructors, and the
\* bare primitives String, Number, Boolean standing as an argument of a
\* constructor, an element of its array or a field value of its shape
Unrewritten(m) ==
    {o \in Occurrences(Occurrence(m, None, "")) :
       \/ IsRuntypesCall(o.node)
       \/ /\ IsId(o.node)
          /\ o.node.name \in {"String", "Number", "Boolean"}
          /\ \/ o.role \in {"elements", "value"}
             \/ o.role = "arguments" /\ (IsZodCall(o.parent) \/ IsRuntypesCall(o.parent))}

\* C19: in a unit that imports the runtypes names by name, a statement whose
\* expression is a call of a runtypes constructor, with whatever nesting of
\* constructors in its arguments, comes out with nothing of runtypes left
\* inside a rewritten zod constructor: no call of a runtypes constructor and
\* no bare primitive reference, at any depth.
NestedRewriting ==
    (/\ Done
     /\ NamespacePrefix(source) = ""
     /\ ConstructorNames \cup {"String", "Number", "Boolean"}
           \subseteq ImportedNames(source))
    => \A k \in 1..Len(ExprStatements(source)) :
          IsRuntypesCall(ExprStatements(source)[k].expr)
          => \A m \in Nodes(ExprStatements(result)[k].expr) :
                IsZodCall(m) => Unrewritten(m) = {}

\* ---------------------------------------------------------------------- C20
\* the bare spelling of a qualified expression: every <alias>.Name, Name a key
\* of the type table, written Name
RECURSIVE Unqualify(_, _, _)
Unqualify(n, p, role) ==
    IF /\ IsMember(n) /\ IsIdNamed(n.object, "t")
       /\ IsId(n.property) /\ InTypeMapping(n.property.name)
    THEN Id(n.property.name)
    ELSE MapChildren(n, Unqualify)

\* the unit of the bare spelling: the names imported by name
BareSpelling(body) == <<NamedAll>> \o MapBody(Text(ExprStatements(body)), Unqualify)

\* every runtypes name of the unit is reached through the alias: no bare
\* identifier carries a name of the type table, but for the callee of a call
\* of the host language's Boolean, String, Number or Symbol
FullyQualified(body) ==
    /\ AliasReferences(body, "t") /= {}
    /\ \A o \in BodyOccurrences(body) :
          (IsBare(o) /\ InTypeMapping(o.node.name))
          => (o.role = "callee" /\ o.node.name \in JsBuiltinNames)

\* C20: a unit whose only import is `import * as t from "runtypes"` and whose
\* schema expression reaches every runtypes name as t.Name comes out with the
\* same zod expression as the unit that imports the names by name and spells
\* the expression bare.
QualifiedBareEquivalence ==
    (Done /\ Imports(source) = <<Namespace>> /\ FullyQualified(source))
    => Text(ExprStatements(result))
          = Text(ExprStatements(transformer(BareSpelling(source))))

\* ---------------------------------------------------------------------- C21
\* the stages of one call in the order of their calls (lines 1542-1552): import
\* resolution; collision marking; primitive and composite rewriting; method
\* rewriting; static-type rewriting; namespace-qualified rewriting; the
\* validation methods; import injection; return
StageOrder ==
    <<"processImports", "markJsBuiltins", "transformStandaloneTypeIdentifiers",
      "transformTypeCallExpressions", "transformMethodCalls", "transformStaticToInfer",
      "transformNamespaceImports", "transformValidationMethods", "addZodImport",
      "return", "done">>

StageIndex(p) == CHOOSE i \in 1..Len(StageOrder) : StageOrder[i] = p

\* the statements other than imports, as they print (marks are not printed)
PrintedStatements(body) ==
    toSource(SelectSeq(body, LAMBDA st : st.type /= "ImportDeclaration"))

FlaggedArguments(body) ==
    {o \in BodyOccurrences(markJsBuiltins(RemoveImports(body))) :
       IsId(o.node) /\ o.node.jsBuiltin /\ IsCall(o.parent) /\ o.role = "arguments"}

\* C22: an identifier that markJsBuiltins flagged as a host builtin, being an
\* argument of a call, is replaced by no later stage (the argument handling of
\* the Array, Optional, Union, Tuple and Intersect calls included): it stands
\* in the output under its name at its place.
FlaggedIdentifiersKept ==
    Done =>
      \A o \in FlaggedArguments(source) :
         \E m \in BodyNodes(result) :
            IsId(m) /\ m.name = o.node.name /\ m.loc = o.node.loc

\* ---------------------------------------------------------------------- C23
\* C23: at the end of a call hasModifications is true if and only if the tree
\* differs from the tree of the unit (something was replaced, renamed or
\* removed); a unit whose tree is unchanged is returned with the flag false.
ModificationFlagExact ==
    Done => (hasModifications <=> Text(toSource(root)) /= Text(source))

\* ---------------------------------------------------------------------- C24
\* a call of a constructor imported by name all of whose arguments are
\* identifiers the type table does not know (user-defined schemas, values)
IsOpaqueConstructorCall(e, body) ==
    /\ IsCall(e) /\ IsId(e.callee)
    /\ e.callee.name \in ConstructorNames \ {"Literal"}
    /\ e.callee.name \in ImportedNames(body)
    /\ Len(e.arguments) >= 1
    /\ \A i \in 1..Len(e.arguments) :
          IsId(e.arguments[i]) /\ ~InTypeMapping(e.arguments[i].name)

\* C24: a statement whose expression is a call of Array, Object, Tuple, Union,
\* Intersect, Optional or Record (imported by name) on arguments the transform
\* does not recognize comes out converted to a zod expression, the runtypes
\* constructor name gone from the callee, with every argument standing
\* unchanged inside it.
GracefulPartialRewrite ==
    (Done /\ NamespacePrefix(source) = "")
    => \A k \in 1..Len(ExprStatements(source)) :
          LET e == ExprStatements(source)[k].expr
              out == ExprStatements(result)[k].expr
          IN IsOpaqueConstructorCall(e, source)
             => /\ ~IsRuntypesCall(out)
                /\ \E m \in Nodes(out) : IsZodCall(m)
                /\ \A i \in 1..Len(e.arguments) :
                      \E m \in Nodes(out) : m = e.arguments[i]

\* ---------------------------------------------------------------------- C25
\* C25: in a unit that imports String, Number and Boolean by name, a statement
\* whose expression is the method call A.or(B), A and B identifiers (user
\* schemas or imported primitives), comes out as z.union([A', B']): one
\* array-literal argument holding the rewritten receiver, then the rewritten
\* argument.
OrBecomesUnion ==
    (/\ Done
     /\ NamespacePrefix(source) = ""
     /\ {"String", "Number", "Boolean"} \subseteq ImportedNames(source))
    => \A k \in 1..Len(ExprStatements(source)) :
          LET e == ExprStatements(source)[k].expr
              out == ExprStatements(result)[k].expr
          IN (/\ MethodMatch(e) /\ MethodName(e) = "or" /\ Len(e.arguments) = 1
              /\ IsId(e.callee.object) /\ IsId(e.arguments[1]))
             => ExprText(out)
                   = Call(ZMember("union"),
                          <<Arr(<<ExprText(RewrittenForm(e.callee.object, source)),
                                  ExprText(RewrittenForm(e.arguments[1], source))>>)>>)

\* ---------------------------------------------------------------------- C26
\* the primitives of the type table: the names mapped to a zero-argument call
TablePrimitives ==
    {"String", "Number", "Boolean", "BigInt", "Null", "Undefined", "Unknown",
     "Void", "Never"}

\* C26: in a unit with named imports only, a statement whose expression is a
\* bare reference to a primitive of the type table imported by name comes out
\* as the zero-argument zod call the table gives for it.
EveryPrimitiveReplaced ==
    (Done /\ NamespacePrefix(source) = "")
    => \A k \in 1..Len(ExprStatements(source)) :
          LET e == ExprStatements(source)[k].expr
              out == ExprStatements(result)[k].expr
          IN (/\ IsId(e)
              /\ e.name \in TablePrimitives
              /\ e.name \in ImportedNames(source))
             => ExprText(out) = parseZodExpression(MappedType(e.name))

\* ---------------------------------------------------------------------- C27
\* C27: in a unit that imports runtypes, a guard call that is the initializer
\* of a declaration (const r = T.guard(x), const r = t.String.guard(x)) comes
\* out as a call of safeParse on the same arguments, with no `.success`
\* accessor anywhere in the initializer.
SuccessOnlyInIfTest ==
    (Done /\ HasRuntypesImport(source))
    => \A k \in 1..Len(ExprStatements(source)) :
          LET st == ExprStatements(source)[k]
              out == ExprStatements(result)[k].expr
          IN (/\ st.type = "VariableDeclaration"
              /\ IsCall(st.expr)
              /\ IsMember(st.expr.callee)
              /\ IsIdNamed(st.expr.callee.property, "guard"))
             => /\ IsCall(out)
                /\ IsMember(out.callee)
                /\ IsIdNamed(out.callee.property, "safeParse")
                /\ out.arguments = st.expr.arguments
                /\ \A m \in Nodes(out) :
                      ~(IsMember(m) /\ IsIdNamed(m.property, "success"))

\* ---------------------------------------------------------------------- C28
\* the named specifiers of the runtypes imports of a unit
NamedSpecifiers(body) ==
    LET specs == RuntypesSpecifiers(body) IN
    {specs[i] : i \in {k \in 1..Len(specs) : specs[k].type = "ImportSpecifier"}}

\* C28: in a unit with named imports only, a statement whose expression is a
\* bare reference to the local name of a specifier importing String, Number or
\* Boolean comes out as the zod call of the imported name; and a bare reference
\* to String, Number, Boolean or Symbol that is the local name of no specifier
\* comes out unchanged.
LocalBindingsRecorded ==
    (Done /\ NamespacePrefix(source) = "")
    => \A k \in 1..Len(ExprStatements(source)) :
          LET e == ExprStatements(source)[k].expr
              out == ExprStatements(result)[k].expr
          IN IsId(e)
             => /\ \A sp \in NamedSpecifiers(source) :
                      (sp.local = e.name /\ sp.imported \in {"String", "Number", "Boolean"})
                      => ExprText(out) = parseZodExpression(MappedType(sp.imported))
                /\ (/\ e.name \in JsBuiltinNames
                    /\ \A sp \in NamedSpecifiers(source) : sp.local /= e.name)
                   => ExprText(out) = ExprText(e)

\* ---------------------------------------------------------------------- C29
\* the local names of the namespace specifiers of the runtypes imports
NamespaceAliases(body) ==
    LET specs == RuntypesSpecifiers(body) IN
    {specs[i].local : i \in {k \in 1..Len(specs) : specs[k].type = "ImportNamespaceSpecifier"}}

\* C29: in a unit with two namespace imports of runtypes under different
\* aliases, the returned text holds no qualified reference through either
\* alias.
EveryNamespaceAliasRewritten ==
    (Done /\ Cardinality(NamespaceAliases(source)) > 1)
    => \A alias \in NamespaceAliases(source) : AliasReferences(result, alias) = {}

\* ---------------------------------------------------------------------- C30
\* the names the host language defines itself: a reference to one of them is
\* bound even without the import
HostGlobalNames == JsBuiltinNames \cup {"Array", "Object", "BigInt", "Function"}

\* the local names bound by the runtypes imports of a unit
ImportedLocals(body) ==
    {sp.local : sp \in NamedSpecifiers(body)} \cup NamespaceAliases(body)

\* the identifiers of a tree in reference position: not the property of a
\* member access and not the parameter of a function
BareReferences(body) ==
    {o \in BodyOccurrences(body) : IsBare(o) /\ o.role /= "params"}

\* C30: when the runtypes imports of a unit have been removed, the returned
\* text holds no reference to a name that only those imports bound (a local
\* name of a specifier or a namespace alias that the host language does not
\* define itself).
NoDanglingBinding ==
    (Done /\ HasRuntypesImport(source) /\ ~HasRuntypesImport(result))
    => \A o \in BareReferences(result) :
          o.node.name \notin (ImportedLocals(source) \ HostGlobalNames)

====
